---- MODULE Spec2Model ----
(***************************************************************************)
(* Lightning / thunder scheduler of the Rainy-Thoughts notebook.           *)
(*                                                                         *)
(* Units.  stormIntensity and audioVolume are slider percents (0..100),    *)
(* i.e. the settings value times 100.  A Math.random() draw and a distance *)
(* are in thousandths (0..999 / 0..1000).  Brightness, lightningVal and a  *)
(* playback rate are in 1/10000.  A thunder volume is in 1/1000000.        *)
(* Delays and remaining times are in milliseconds.                         *)
(*                                                                         *)
(* Time.  The browser's timer table is the sequence `timers`, in creation  *)
(* order; every entry carries the time remaining until it is due and the   *)
(* values its callback closed over.  Advance moves time to the earliest    *)
(* deadline; user actions may happen at any instant reached that way.      *)
(***************************************************************************)
EXTENDS Integers, Sequences, FiniteSets

VARIABLES
    phase,              \* "initial" (module loaded), "mounted", "unmounted"
    stormIntensity,     \* settings.stormIntensity, percent
    isAudioPlaying,     \* settings.isAudioPlaying
    audioVolume,        \* settings.audioVolume, percent
    lightningVal,       \* React state lightningVal, 1/10000
    timers,             \* pending setTimeout entries, creation order
    isInitialized,      \* audio service flag
    ambientSets,        \* sets of ambient loops created (rain, forest, wind, music, thunder 1, 2)
    globalVolumeScalar, \* audio service scalar, percent
    thunderPool,        \* sequence of pooled thunder channels
    userActions,        \* number of user actions taken so far
    last,               \* the step taken last (observation only)
    backgroundUrl,      \* settings.backgroundUrl: "null" or a URL
    autoFitBackground,  \* settings.autoFitBackground
    rainIntensity,      \* settings.rainIntensity, percent
    refraction,         \* settings.refraction, percent
    grading,            \* settings.brightness and settings.contrast, percent
    size,               \* canvas size <<width, height>>
    texture,            \* RainShader state texture: "null" or the URL it was loaded from
    imgAspect,          \* RainShader state imgAspect, as <<width, height>>
    loads,              \* URLs of the TextureLoader loads in flight, in start order
    uniforms,           \* the uniforms of the shader material
    frag,               \* the fragment shaded last (observation only)
    scenario,           \* the run of the scheduler being measured (observation only)
    auto                \* the state of auto-prompt (Controls) and of auto-scene (App)

\* the state of the renderer
renderVars == <<backgroundUrl, autoFitBackground, rainIntensity, refraction, grading, size,
                texture, imgAspect, loads, uniforms, frag>>

vars == <<phase, stormIntensity, isAudioPlaying, audioVolume, lightningVal,
          timers, isInitialized, ambientSets, globalVolumeScalar, thunderPool, userActions,
          last,
          renderVars, scenario, auto>>

\* what a timer callback or the passing of time never touches
appVars == <<phase, stormIntensity, isAudioPlaying, audioVolume, userActions>>

\* the state of the audio service
audioVars == <<isInitialized, ambientSets, globalVolumeScalar, thunderPool>>

(***************************************************************************)
(* Bounds of the exploration.                                              *)
(***************************************************************************)
\* the auto-scene interval ticks at most MaxTicks times
MaxTicks == 2

\* Math.random() is sampled at k/RandSteps (k < RandSteps) and at 0.999.
RandSteps == 1

\* The user acts (slider, switch, closing the page) at most this often.
MaxUserActions == 2

Rand == {(k * 1000) \div RandSteps : k \in 0..(RandSteps - 1)} \cup {999}

\* The smallest and the largest draw.
RandEnds == {0, 999}

\* The length of a measured run of the scheduler: 10 minutes, in ms.
SimDuration == 600000

\* Positions of the Storm slider that are explored (percent).
StormVals == {0, 1, 10, 100}

\* Distances (thousandths) at which the thunder mapping is compared with itself.
DistanceGrid == {0, 125, 250, 500, 750, 875, 1000}

\* Positions of the Volume slider that are explored besides the default 100
\* (percent): the two sides of triggerThunder's 0.05 threshold.
VolumeVals == {5, 6}

(***************************************************************************)
(* Program constants.                                                      *)
(***************************************************************************)
THUNDER_POOL_SIZE == 4
minDelay == 5000

Max(a, b) == IF a >= b THEN a ELSE b
Min(a, b) == IF a <= b THEN a ELSE b

(***************************************************************************)
(* Pure computations of the scheduler.                                     *)
(***************************************************************************)
\* (1.0 - settings.stormIntensity) * 40000, in ms
OffsetVariableDelay(storm) == (110 - storm) * 400
variableDelay(storm) == (100 - storm) * 400

\* minDelay + Math.random() * variableDelay, truncated to ms by setTimeout
BadNextDelay(storm, r) == (r * variableDelay(storm)) \div 1000
nextDelay(storm, r) == minDelay + (r * variableDelay(storm)) \div 1000

\* Math.max(0, Math.min(1, raw - bias * 0.3)), thousandths
BadDistance(raw, bias) == Max(0, Min(1000, raw + 3 * bias))
distance(raw, bias) == Max(0, Min(1000, raw - 3 * bias))

\* (1.0 - distance) * 0.8 + 0.2, in 1/10000
BadBrightness(d) == (1000 - d) * 8 + 2500
brightness(d) == (1000 - d) * 8 + 2000

\* 100 + Math.random() * 200 : how long one flash is held
flashHold(r) == 100 + (r * 200) \div 1000

\* 150 + Math.random() * 150 : offset of the second flash of a double flash
secondFlashDelay(r) == 150 + (r * 150) \div 1000

\* Math.random() > 0.8 : the event is skipped
skipGate(r) == r > 800

\* Math.random() > 0.7 : the event is a double flash
isDouble(r) == r > 700

\* the shader's blend weight of the flash colour: uLightning * 0.6, in 1/100000
flashWeight(uLightning) == uLightning * 6

(***************************************************************************)
(* Pure computations of triggerThunder.                                    *)
(***************************************************************************)
\* a variant with a slower sound
SlowDelayMs(d, r) == 6 * d + r \div 2
\* distance * 4000 + Math.random() * 500, truncated to ms by setTimeout
delayMs(d, r) == 4 * d + r \div 2

\* Math.max(0.1, (1.0 - distance) * 0.8) * globalVolumeScalar, in 1/1000000
LoudEventVolume(d, g) == Max(1000, (1000 - d) * 8) * 100
eventVolume(d, g) == Max(1000, (1000 - d) * 8) * g

\* 1.1 - distance * 0.5 + Math.random() * 0.1, in 1/10000
rate(d, r) == 11000 - 5 * d + r

\* a variant that takes the last idle channel
LastFreeNode(pool) ==
    IF \E i \in 1..Len(pool) : pool[i].paused
    THEN CHOOSE i \in 1..Len(pool) :
            pool[i].paused /\ \A j \in (i + 1)..Len(pool) : ~pool[j].paused
    ELSE 1

\* thunderPool.find(a => a.paused) || thunderPool[0]  (1-based index)
freeNode(pool) ==
    IF \E i \in 1..Len(pool) : pool[i].paused
    THEN CHOOSE i \in 1..Len(pool) :
            pool[i].paused /\ \A j \in 1..(i - 1) : ~pool[j].paused
    ELSE 1

(***************************************************************************)
(* The timer table.                                                        *)
(***************************************************************************)
RemoveAt(s, i) == SubSeq(s, 1, i - 1) \o SubSeq(s, i + 1, Len(s))

IsLoop(t) == t.kind = "loop"

LoopTimers(tm) == {i \in 1..Len(tm) : IsLoop(tm[i])}

\* lightningLoopRef.current designates the loop timer armed last
Unref(tm) ==
    [i \in 1..Len(tm) |->
        IF IsLoop(tm[i]) THEN [tm[i] EXCEPT !.ref = FALSE] ELSE tm[i]]

\* if (lightningLoopRef.current) clearTimeout(lightningLoopRef.current)
NoClearLoopRef(tm) == tm
clearLoopRef(tm) == SelectSeq(tm, LAMBDA t : ~(IsLoop(t) /\ t.ref))

\* timer i is due and no timer created before it is due
Due(i) ==
    /\ i \in 1..Len(timers)
    /\ timers[i].rem = 0
    /\ \A j \in 1..(i - 1) : timers[j].rem > 0

(***************************************************************************)
(* scheduleLightning: arms the loop timer, unless the intensity is at most *)
(* 0.01.  The callback closes over the settings of the render that created *)
(* the effect (storm, audio).                                              *)
(***************************************************************************)
\* the entry setTimeout adds for the loop callback; delay is the argument passed
LoopTimer(storm, audio, r) ==
    [kind |-> "loop", rem |-> nextDelay(storm, r), delay |-> nextDelay(storm, r),
     ref |-> TRUE, storm |-> storm, audio |-> audio]

scheduleLightning(tm, storm, audio, r) ==
    IF storm <= 1
    THEN tm
    ELSE Append(Unref(tm), LoopTimer(storm, audio, r))

\* the last statement of the loop callback: scheduleLightning(); // Reschedule
NoReschedule(tm, t, r) == tm
rescheduleAfterFire(tm, t, r) == scheduleLightning(tm, t.storm, t.audio, r)

(***************************************************************************)
(* The lightning effect, re-run by React when stormIntensity or            *)
(* isAudioPlaying changed: the cleanup of the previous run, then the body. *)
(***************************************************************************)
NoCleanup(tm) == tm
lightningEffectCleanup(tm) == clearLoopRef(tm)

\* a variant that leaves a pending loop timer alone while the intensity stays positive
KeepPendingLightningEffect(tm, storm, audio, r) ==
    IF storm > 0 /\ LoopTimers(tm) # {}
    THEN tm
    ELSE LET stopped == clearLoopRef(clearLoopRef(tm))
         IN  IF storm > 0 THEN scheduleLightning(stopped, storm, audio, r) ELSE stopped
lightningEffect(tm, storm, audio, r) ==
    LET stopped == clearLoopRef(lightningEffectCleanup(tm))
    IN  IF storm > 0 THEN scheduleLightning(stopped, storm, audio, r) ELSE stopped

(***************************************************************************)
(* Audio service.                                                          *)
(***************************************************************************)
\* the pool filled by initAudio: alternating sources, never looping
NewPool ==
    [i \in 1..THUNDER_POOL_SIZE |->
        [src |-> IF (i - 1) % 2 = 0 THEN "THUNDER_URL_1" ELSE "THUNDER_URL_2",
         loop |-> FALSE, paused |-> TRUE]]

\* a variant of initAudio without the early return
UnguardedInitAudioPool(pool, init) == pool \o NewPool
\* initAudio: returns at once when already initialized
initAudioPool(pool, init) == IF init THEN pool ELSE pool \o NewPool

\* initAudio: the six looping ambient Audio objects are created once
initAudioAmbient(n, init) == IF init THEN n ELSE n + 1

\* setGlobalVolume: Math.max(0, Math.min(1, volume))
setGlobalVolume(v) == Max(0, Min(100, v))

\* the audio lifecycle effect of App
audioEffectVolume(playing, vol) ==
    IF playing THEN setGlobalVolume(vol) ELSE setGlobalVolume(0)

\* a variant without the guard on the volume scalar
UnguardedTriggerThunder(tm, pool, init, g, d, rd, rr) ==
    IF ~init
    THEN tm
    ELSE Append(tm, [kind |-> "thunder", rem |-> delayMs(d, rd), node |-> freeNode(pool),
                     volume |-> eventVolume(d, g), rate |-> rate(d, rr),
                     distance |-> d])

\* triggerThunder: nothing when not initialized or nearly muted, otherwise a
\* timeout carrying the channel, the volume and the rate fixed now
triggerThunder(tm, pool, init, g, d, rd, rr) ==
    IF ~init \/ g <= 5
    THEN tm
    ELSE Append(tm, [kind |-> "thunder", rem |-> delayMs(d, rd), node |-> freeNode(pool),
                     volume |-> eventVolume(d, g), rate |-> rate(d, rr),
                     distance |-> d])

(***************************************************************************)
(* doFlash: sets the flash intensity and arms its reset.  A state update   *)
(* of an unmounted component is dropped by React.                          *)
(***************************************************************************)
setLightningVal(v) == IF phase = "mounted" THEN v ELSE lightningVal

\* a variant that arms no reset
NoFlashReset(tm, r) == tm
doFlashTimers(tm, r) == Append(tm, [kind |-> "flashReset", rem |-> flashHold(r)])

(***************************************************************************)
(* The renderer (RainShader).  An image is known by its URL; its pixel     *)
(* size is a property of the file behind the URL.                          *)
(***************************************************************************)
\* Images the user uploads or the scene generator returns.
Urls == {"square.png", "wide.png"}

\* tex.image.width / tex.image.height of the image behind a URL, in lowest terms
ImageAspect(url) == IF url = "square.png" THEN <<1, 1>> ELSE <<7, 3>>

\* Canvas sizes that are explored, in lowest terms.
Sizes == {<<16, 9>>, <<1, 1>>}

\* the canvas size at the first render
DefaultSize == <<16, 9>>

\* the uniforms object built once by useMemo from the first render
InitialUniforms ==
    [uResolution |-> DefaultSize, uBgTexture |-> "null", uHasTexture |-> FALSE,
     uRainIntensity |-> 26, uRefraction |-> 100, uAutoFit |-> TRUE,
     uImgAspect |-> <<1, 1>>, uBrightness |-> 110, uContrast |-> 100, uLightning |-> 0]

(***************************************************************************)
(* The fragment shader.  Heights, weights and masks are in thousandths; a  *)
(* texture coordinate is in 1/CoordUnit.  The drop layers (StaticDrops,    *)
(* DropLayer2) are noise functions of the coordinate and the time: the     *)
(* values they return at a point are inputs here, and so are the colour of *)
(* the background at the point (the texel, or the procedural colour) and   *)
(* the specular and rim light of a tilted surface.  A colour is <<r, g,    *)
(* b>> in thousandths.  uZoom is 1.0, so that uv is vUv.                   *)
(***************************************************************************)
CoordUnit == 100800

Half == CoordUnit \div 2

\* Coordinates uv of the fragments that are explored.
UvSamples == {[x |-> 0, y |-> 0], [x |-> Half, y |-> Half], [x |-> CoordUnit, y |-> CoordUnit]}

\* What the drop layers return at a point: StaticDrops, and (height, trail)
\* of DropLayer2 at uv and at uv * 1.85.
LayerSamples ==
    {[s |-> 0, m1 |-> <<0, 0>>, m2 |-> <<0, 0>>],
     [s |-> 800, m1 |-> <<1500, 600>>, m2 |-> <<400, 900>>]}

\* Positions of the Rain Intensity and Refraction sliders that are explored.
RainVals == {0, 60, 100}

RefractionVals == {0, 100}

\* Positions of the Brightness and Contrast sliders that are explored.
BrightnessVals == {0, 110, 200}

ContrastVals == {0, 100, 200}

\* Background colours at a point: black, white, the peach of the procedural sky.
ColourSamples == {<<0, 0, 0>>, <<1000, 1000, 1000>>, <<980, 720, 550>>}

\* spec + fresnel of a tilted surface: none, and the most (0.8 + 0.3)
LightSamples == {0, 1100}

\* vec3 flashCol
flashCol == <<800, 900, 1000>>

\* GLSL smoothstep(e0, e1, x) for e0 < e1
smoothstep(e0, e1, x) ==
    LET t == Max(0, Min(1000, ((x - e0) * 1000) \div (e1 - e0)))
    IN  (t * t * (3000 - 2 * t)) \div 1000000

\* a variant whose mist layer never fades out
NoisyLayerWeights(rain) ==
    [staticDrops |-> (smoothstep(0, 1000, rain * 10) * 3) \div 10 + 100,
     layer1 |-> smoothstep(0, 800, rain * 10),
     layer2 |-> (smoothstep(500, 1000, rain * 10) * 3) \div 10]
\* the weights of the mist, the primary and the secondary layer
layerWeights(rain) ==
    [staticDrops |-> (smoothstep(0, 1000, rain * 10) * 3) \div 10,
     layer1 |-> smoothstep(0, 800, rain * 10),
     layer2 |-> (smoothstep(500, 1000, rain * 10) * 3) \div 10]

\* a variant of the compositor without the final smoothstep
RawHeightAndTrail(sm, w) ==
    LET s == (sm.s * w.staticDrops) \div 1000
        h == s + (sm.m1[1] * w.layer1) \div 1000 + (sm.m2[1] * w.layer2) \div 1000
    IN  [h |-> h,
         trail |-> Max((sm.m1[2] * w.layer1) \div 1000, (sm.m2[2] * w.layer2) \div 1000)]
\* the height-field compositor: the layers summed with their weights, the
\* height smoothed into [0, 1], the trail mask the larger of the two trails
GetHeightAndTrail(sm, w) ==
    LET s == (sm.s * w.staticDrops) \div 1000
        h == s + (sm.m1[1] * w.layer1) \div 1000 + (sm.m2[1] * w.layer2) \div 1000
    IN  [h |-> smoothstep(0, 1000, h),
         trail |-> Max((sm.m1[2] * w.layer1) \div 1000, (sm.m2[2] * w.layer2) \div 1000)]

\* vec2(h - h_right, h - h_up) * 15.0 * uRefraction, in 1/CoordUnit
normalOf(h, hRight, hUp, refr) ==
    [x |-> ((((h - hRight) * 15 * refr) \div 100) * (CoordUnit \div 100)) \div 10,
     y |-> ((((h - hUp) * 15 * refr) \div 100) * (CoordUnit \div 100)) \div 10]

\* a variant that rescales the other axis
WrongAxisCoverRatio(res, img) ==
    IF res[1] * img[2] > img[1] * res[2]
    THEN [axis |-> "x", num |-> res[1] * img[2], den |-> img[1] * res[2]]
    ELSE [axis |-> "y", num |-> img[1] * res[2], den |-> res[1] * img[2]]
\* the axis the COVER logic rescales and its divisor r = num / den
coverRatio(res, img) ==
    IF res[1] * img[2] > img[1] * res[2]
    THEN [axis |-> "y", num |-> res[1] * img[2], den |-> img[1] * res[2]]
    ELSE [axis |-> "x", num |-> img[1] * res[2], den |-> res[1] * img[2]]

\* (texUv - 0.5) / r + 0.5 on the rescaled axis
coverFit(texUv, res, img) ==
    LET c == coverRatio(res, img)
    IN  IF c.axis = "y"
        THEN [x |-> texUv.x, y |-> ((texUv.y - Half) * c.den) \div c.num + Half]
        ELSE [x |-> ((texUv.x - Half) * c.den) \div c.num + Half, y |-> texUv.y]

\* floor of the square root, by Newton's iteration from x
RECURSIVE sqrtFrom(_, _)
sqrtFrom(n, x) ==
    LET y == (x + n \div x) \div 2
    IN  IF y >= x THEN x ELSE sqrtFrom(n, y)

\* length(vec2(x, y))
length(x, y) ==
    LET n == x * x + y * y
    IN  IF n = 0 THEN 0 ELSE sqrtFrom(n, n)

\* col * k / unit on every channel
scale(col, k, unit) == [c \in 1..3 |-> (col[c] * k) \div unit]

\* the lighting and grading stage: flash blend, specular and rim light on the
\* drops, darkened drop edges, vignette, brightness, contrast
grade(u, uv, texel, light, normal, dropMask) ==
    LET w       == flashWeight(u.uLightning)
        flashed == IF u.uLightning > 0
                   THEN [c \in 1..3 |->
                           (texel[c] * (100000 - w) + flashCol[c] * w) \div 100000]
                   ELSE texel
        lit     == [c \in 1..3 |-> flashed[c] + (light * dropMask) \div 1000]
        tilt    == length((normal.x * 10) \div 1008, (normal.y * 10) \div 1008)
        edged   == scale(lit, 1000 - (dropMask * tilt) \div 10000, 1000)
        vig     == 1000 - length(((uv.x - Half) * 10) \div 1008,
                                 ((uv.y - Half) * 10) \div 1008) \div 5
        bright  == scale(scale(edged, vig, 1000), u.uBrightness, 100)
    IN  [c \in 1..3 |-> ((bright[c] - 500) * u.uContrast) \div 100 + 500]

\* what the 8-bit drawing surface keeps of a channel of gl_FragColor
toSurface(col) == [c \in 1..3 |-> Max(0, Min(1000, col[c]))]

\* main(): the values of one fragment, from the uniforms, its coordinate, the
\* layer values at the coordinate, at its right and at its upper neighbour,
\* the background colour at the point and the light on a tilted surface
main(u, uv, center, right, up, texel, light) ==
    LET w      == layerWeights(u.uRainIntensity)
        c      == GetHeightAndTrail(center, w)
        hRight == GetHeightAndTrail(right, w).h
        hUp    == GetHeightAndTrail(up, w).h
        normal == normalOf(c.h, hRight, hUp, u.uRefraction)
        refractionUV == [x |-> uv.x - normal.x, y |-> uv.y - normal.y]
        dropMask == smoothstep(10, 100, c.h)
        col    == grade(u, uv, texel,
                        IF normal = [x |-> 0, y |-> 0] THEN 0 ELSE light,
                        normal, dropMask)
    IN  [path |-> IF u.uHasTexture THEN "texture" ELSE "procedural",
         uv |-> uv, center |-> center, weights |-> w, h |-> c.h, trail |-> c.trail, normal |-> normal,
         refractionUV |-> refractionUV,
         texUv |-> IF u.uHasTexture /\ u.uAutoFit
                   THEN coverFit(refractionUV, u.uResolution, u.uImgAspect)
                   ELSE refractionUV,
         dropMask |-> dropMask,
         texel |-> texel, col |-> col, pixel |-> toSurface(col)]

(***************************************************************************)
(* A measured run of the scheduler: the time since the settings were set   *)
(* and the loop timer's fires in that time.  A run ends when a setting     *)
(* changes or when SimDuration has passed.                                 *)
(***************************************************************************)
NoScenario == [running |-> FALSE, now |-> 0, fires |-> 0]

\* d ms pass
elapse(sc, d) ==
    IF ~sc.running THEN sc
    ELSE IF sc.now + d > SimDuration THEN NoScenario
    ELSE [sc EXCEPT !.now = sc.now + d]

\* the loop timer fired
countFire(sc) == IF sc.running THEN [sc EXCEPT !.fires = sc.fires + 1] ELSE sc

(***************************************************************************)
(* Auto-prompt (Controls) and auto-scene (App).  A setInterval entry keeps *)
(* the callback of the render in which its effect ran: what is recorded of *)
(* it is the value of the guard that callback closed over.  An armed       *)
(* interval may tick at any moment, a generation takes any time.           *)
(***************************************************************************)
NoInterval == [armed |-> FALSE, guard |-> FALSE]

\* useState(false) four times, nothing in flight, no interval
InitialAuto ==
    [autoPlay |-> FALSE, isGenerating |-> FALSE, prompts |-> 0, promptInterval |-> NoInterval,
     isAutoScene |-> FALSE, isSceneLoading |-> FALSE, scenes |-> 0,
     sceneInterval |-> NoInterval, sceneTicks |-> 0]

\* the handleSpark of a render in which isGenerating was `generating`
handleSpark(a, generating) ==
    IF generating THEN a
    ELSE [a EXCEPT !.isGenerating = TRUE, !.prompts = a.prompts + 1]

\* the auto-play effect runs: the cleanup of its previous run, then its body
autoPlayEffect(a) ==
    IF a.autoPlay
    THEN LET b == IF ~a.isGenerating THEN handleSpark(a, a.isGenerating) ELSE a
         IN  [b EXCEPT !.promptInterval = [armed |-> TRUE, guard |-> a.isGenerating]]
    ELSE [a EXCEPT !.promptInterval = NoInterval]

\* Controls commits a render in which autoPlay or handleSpark changed: the
\* effect runs, and once more if its call of handleSpark set isGenerating
commitControls(a) ==
    LET b == autoPlayEffect(a)
    IN  IF b.isGenerating # a.isGenerating THEN autoPlayEffect(b) ELSE b

\* the generateNewScene of a render in which isSceneLoading was `loading`
generateNewScene(a, loading) ==
    IF loading THEN a
    ELSE [a EXCEPT !.isSceneLoading = TRUE, !.scenes = a.scenes + 1]

\* the auto-scene effect runs after isAutoScene changed
autoSceneEffect(a) ==
    IF a.isAutoScene
    THEN [generateNewScene(a, a.isSceneLoading) EXCEPT
             !.sceneInterval = [armed |-> TRUE, guard |-> a.isSceneLoading]]
    ELSE [a EXCEPT !.sceneInterval = NoInterval]

\* the cleanups of both effects at unmount
effectsCleanup(a) == [a EXCEPT !.promptInterval = NoInterval, !.sceneInterval = NoInterval]

(***************************************************************************)
(* Initial state: the module is loaded, App is not mounted yet.            *)
(***************************************************************************)
Init ==
    /\ phase = "initial"
    /\ stormIntensity = 0
    /\ isAudioPlaying = TRUE
    /\ audioVolume = 100
    /\ lightningVal = 0
    /\ timers = <<>>
    /\ isInitialized = FALSE
    /\ ambientSets = 0
    /\ globalVolumeScalar = 100
    /\ thunderPool = <<>>
    /\ userActions = 0
    /\ last = [op |-> "Init"]
    /\ backgroundUrl = "null"
    /\ autoFitBackground = TRUE
    /\ rainIntensity = 26
    /\ refraction = 100
    /\ grading = [brightness |-> 110, contrast |-> 100]
    /\ size = DefaultSize
    /\ texture = "null"
    /\ imgAspect = <<1, 1>>
    /\ loads = <<>>
    /\ uniforms = InitialUniforms
    /\ frag = [path |-> "none"]
    /\ scenario = NoScenario
    /\ auto = InitialAuto

(***************************************************************************)
(* Mount: the effects run once with the default settings.                  *)
(***************************************************************************)
Mount ==
    /\ phase = "initial"
    /\ phase' = "mounted"
    /\ thunderPool' = IF isAudioPlaying THEN initAudioPool(thunderPool, isInitialized)
                      ELSE thunderPool
    /\ isInitialized' = (isInitialized \/ isAudioPlaying)
    /\ ambientSets' = IF isAudioPlaying THEN initAudioAmbient(ambientSets, isInitialized)
                      ELSE ambientSets
    /\ globalVolumeScalar' = audioEffectVolume(isAudioPlaying, audioVolume)
    /\ \E r \in Rand :
         timers' = lightningEffect(timers, stormIntensity, isAudioPlaying, r)
    /\ last' = [op |-> "Mount"]
    /\ UNCHANGED <<stormIntensity, isAudioPlaying, audioVolume, lightningVal, userActions>>
    /\ UNCHANGED <<renderVars, scenario, auto>>

(***************************************************************************)
(* The Storm slider: updateSettings({stormIntensity: v / 100}), then the   *)
(* lightning effect re-runs.                                               *)
(***************************************************************************)
SetStormOn(R) ==
    /\ phase = "mounted"
    /\ userActions < MaxUserActions
    /\ userActions' = userActions + 1
    /\ \E v \in StormVals \ {stormIntensity} :
         /\ stormIntensity' = v
         /\ \E tm \in {lightningEffect(timers, v, isAudioPlaying, r) : r \in R} :
              timers' = tm
         /\ last' = [op |-> "SetStorm"]
    /\ scenario' = NoScenario
    /\ UNCHANGED auto
    /\ UNCHANGED <<phase, isAudioPlaying, audioVolume, lightningVal, audioVars, renderVars>>

\* a variant in which the lightning effect does not depend on isAudioPlaying
ToggleAudioKeepsTimerOn(R) ==
    /\ phase = "mounted"
    /\ userActions < MaxUserActions
    /\ userActions' = userActions + 1
    /\ isAudioPlaying' = ~isAudioPlaying
    /\ thunderPool' = IF isAudioPlaying' THEN initAudioPool(thunderPool, isInitialized)
                      ELSE thunderPool
    /\ isInitialized' = (isInitialized \/ isAudioPlaying')
    /\ ambientSets' = IF isAudioPlaying' THEN initAudioAmbient(ambientSets, isInitialized)
                      ELSE ambientSets
    /\ globalVolumeScalar' = audioEffectVolume(isAudioPlaying', audioVolume)
    /\ \E r \in R :
         timers' = timers
    /\ last' = [op |-> "ToggleAudio"]
    /\ scenario' = NoScenario
    /\ UNCHANGED auto
    /\ UNCHANGED <<phase, stormIntensity, audioVolume, lightningVal, renderVars>>

\* a variant in which muting cancels the thunder timeouts
MuteCancelsThunderOn(R) ==
    /\ phase = "mounted"
    /\ userActions < MaxUserActions
    /\ userActions' = userActions + 1
    /\ isAudioPlaying' = ~isAudioPlaying
    /\ thunderPool' = IF isAudioPlaying' THEN initAudioPool(thunderPool, isInitialized)
                      ELSE thunderPool
    /\ isInitialized' = (isInitialized \/ isAudioPlaying')
    /\ ambientSets' = IF isAudioPlaying' THEN initAudioAmbient(ambientSets, isInitialized)
                      ELSE ambientSets
    /\ globalVolumeScalar' = audioEffectVolume(isAudioPlaying', audioVolume)
    /\ \E r \in R :
         timers' = SelectSeq(lightningEffect(timers, stormIntensity, isAudioPlaying', r),
                             LAMBDA t : isAudioPlaying' \/ t.kind # "thunder")
    /\ last' = [op |-> "ToggleAudio"]
    /\ scenario' = NoScenario
    /\ UNCHANGED auto
    /\ UNCHANGED <<phase, stormIntensity, audioVolume, lightningVal, renderVars>>

(***************************************************************************)
(* The Rain Audio switch: the audio lifecycle effect and the lightning     *)
(* effect both re-run.                                                     *)
(***************************************************************************)
ToggleAudioOn(R) ==
    /\ phase = "mounted"
    /\ userActions < MaxUserActions
    /\ userActions' = userActions + 1
    /\ isAudioPlaying' = ~isAudioPlaying
    /\ thunderPool' = IF isAudioPlaying' THEN initAudioPool(thunderPool, isInitialized)
                      ELSE thunderPool
    /\ isInitialized' = (isInitialized \/ isAudioPlaying')
    /\ ambientSets' = IF isAudioPlaying' THEN initAudioAmbient(ambientSets, isInitialized)
                      ELSE ambientSets
    /\ globalVolumeScalar' = audioEffectVolume(isAudioPlaying', audioVolume)
    /\ \E tm \in {lightningEffect(timers, stormIntensity, isAudioPlaying', r) : r \in R} :
         timers' = tm
    /\ last' = [op |-> "ToggleAudio"]
    /\ scenario' = NoScenario
    /\ UNCHANGED auto
    /\ UNCHANGED <<phase, stormIntensity, audioVolume, lightningVal, renderVars>>

(***************************************************************************)
(* The Volume slider (rendered only while audio is on): the audio          *)
(* lifecycle effect re-runs, the lightning effect does not.                *)
(***************************************************************************)
SetVolume ==
    /\ phase = "mounted"
    /\ userActions < MaxUserActions
    /\ userActions' = userActions + 1
    /\ isAudioPlaying
    /\ \E v \in VolumeVals \ {audioVolume} :
         /\ audioVolume' = v
         /\ globalVolumeScalar' = audioEffectVolume(isAudioPlaying, v)
    /\ thunderPool' = initAudioPool(thunderPool, isInitialized)
    /\ isInitialized' = TRUE
    /\ ambientSets' = initAudioAmbient(ambientSets, isInitialized)
    /\ last' = [op |-> "SetVolume"]
    /\ scenario' = NoScenario
    /\ UNCHANGED auto
    /\ UNCHANGED <<phase, stormIntensity, isAudioPlaying, lightningVal, timers, renderVars>>

(***************************************************************************)
(* Unmount: the cleanup of the lightning effect runs; nothing else of the  *)
(* scheduler is torn down.                                                 *)
(***************************************************************************)
Unmount ==
    /\ phase = "mounted"
    /\ userActions < MaxUserActions
    /\ userActions' = userActions + 1
    /\ phase' = "unmounted"
    /\ timers' = lightningEffectCleanup(timers)
    /\ last' = [op |-> "Unmount"]
    /\ scenario' = NoScenario
    /\ auto' = effectsCleanup(auto)
    /\ UNCHANGED <<stormIntensity, isAudioPlaying, audioVolume, lightningVal, audioVars,
                   renderVars>>

(***************************************************************************)
(* The loop timer fires: triggerLightningEvent(), then scheduleLightning(),*)
(* both with the settings the timer closed over.                           *)
(***************************************************************************)
LoopFireOn(R) ==
    \E i \in 1..Len(timers) :
      /\ Due(i)
      /\ IsLoop(timers[i])
      /\ LET t    == timers[i]
             rest == RemoveAt(timers, i)
         IN  \E rGate \in R :
               IF skipGate(rGate)
               THEN /\ \E rNext \in R :
                         timers' = rescheduleAfterFire(rest, t, rNext)
                    /\ last' = [op |-> "LoopFire", skipped |-> TRUE, storm |-> t.storm,
                                audio |-> t.audio]
                    /\ scenario' = countFire(scenario)
                    /\ UNCHANGED auto
                    /\ UNCHANGED lightningVal
               ELSE \E raw, rDouble, rHold, rNext \in R :
                      LET d  == distance(raw, t.storm)
                          b  == brightness(d)
                          t1 == doFlashTimers(rest, rHold)
                      IN
                      \E t2 \in (IF isDouble(rDouble)
                                 THEN {Append(t1, [kind |-> "secondFlash",
                                                   rem |-> secondFlashDelay(rSecond),
                                                   brightness |-> b]) : rSecond \in R}
                                 ELSE {t1}) :
                      \E t3 \in (IF t.audio
                                 THEN {triggerThunder(t2, thunderPool, isInitialized,
                                                      globalVolumeScalar, d, rDelay, rRate) :
                                          rDelay \in R, rRate \in R}
                                 ELSE {t2}) :
                          /\ lightningVal' = setLightningVal(b)
                          /\ timers' = rescheduleAfterFire(t3, t, rNext)
                          /\ last' = [op |-> "LoopFire", skipped |-> FALSE,
                                      storm |-> t.storm, audio |-> t.audio,
                                      raw |-> raw, distance |-> d]
                          /\ scenario' = countFire(scenario)
                          /\ UNCHANGED auto
      /\ UNCHANGED <<appVars, audioVars, renderVars>>

(***************************************************************************)
(* The reset timer of a flash fires: setLightningVal(0).                   *)
(***************************************************************************)
FlashResetFire ==
    \E i \in 1..Len(timers) :
      /\ Due(i)
      /\ timers[i].kind = "flashReset"
      /\ lightningVal' = setLightningVal(0)
      /\ timers' = RemoveAt(timers, i)
      /\ last' = [op |-> "FlashResetFire"]
      /\ UNCHANGED <<appVars, audioVars, renderVars, scenario, auto>>

(***************************************************************************)
(* The second flash of a double flash fires: doFlash() again.              *)
(***************************************************************************)
SecondFlashFireOn(R) ==
    \E i \in 1..Len(timers) :
      /\ Due(i)
      /\ timers[i].kind = "secondFlash"
      /\ lightningVal' = setLightningVal(timers[i].brightness)
      /\ \E rHold \in R :
           timers' = doFlashTimers(RemoveAt(timers, i), rHold)
      /\ last' = [op |-> "SecondFlashFire"]
      /\ UNCHANGED <<appVars, audioVars, renderVars, scenario, auto>>

\* a variant in which a rejected play() takes the lightning loop down
ThunderFireRejectionEscapes ==
    \E i \in 1..Len(timers) :
      /\ Due(i)
      /\ timers[i].kind = "thunder"
      /\ \E ok \in BOOLEAN :
           /\ thunderPool' =
                IF ok THEN [thunderPool EXCEPT ![timers[i].node].paused = FALSE]
                ELSE thunderPool
           /\ last' = [op |-> "ThunderFire", node |-> timers[i].node,
                       volume |-> timers[i].volume, rate |-> timers[i].rate,
                       started |-> ok]
           /\ timers' = IF ok THEN RemoveAt(timers, i)
                        ELSE clearLoopRef(RemoveAt(timers, i))
      /\ UNCHANGED <<appVars, lightningVal, isInitialized, ambientSets, globalVolumeScalar,
                     renderVars,
                     scenario, auto>>

(***************************************************************************)
(* A thunder timeout fires: the channel is configured and play() is        *)
(* called; a rejected play() is caught and leaves the channel as it was.   *)
(***************************************************************************)
ThunderFire ==
    \E i \in 1..Len(timers) :
      /\ Due(i)
      /\ timers[i].kind = "thunder"
      /\ \E ok \in BOOLEAN :
           /\ thunderPool' =
                IF ok THEN [thunderPool EXCEPT ![timers[i].node].paused = FALSE]
                ELSE thunderPool
           /\ last' = [op |-> "ThunderFire", node |-> timers[i].node,
                       volume |-> timers[i].volume, rate |-> timers[i].rate,
                       started |-> ok]
      /\ timers' = RemoveAt(timers, i)
      /\ UNCHANGED <<appVars, lightningVal, isInitialized, ambientSets, globalVolumeScalar,
                     renderVars,
                     scenario, auto>>

(***************************************************************************)
(* A thunder sound reaches its end: a non-looping element pauses itself.   *)
(***************************************************************************)
ThunderEnd ==
    \E n \in 1..Len(thunderPool) :
      /\ ~thunderPool[n].paused
      /\ thunderPool' = [thunderPool EXCEPT ![n].paused = TRUE]
      /\ last' = [op |-> "ThunderEnd"]
      /\ UNCHANGED <<appVars, lightningVal, timers, isInitialized, ambientSets,
                     globalVolumeScalar,
                     renderVars, scenario, auto>>

(***************************************************************************)
(* Time passes until the earliest pending deadline.                        *)
(***************************************************************************)
Advance ==
    /\ timers # <<>>
    /\ \A i \in 1..Len(timers) : timers[i].rem > 0
    /\ LET d == CHOOSE x \in {timers[i].rem : i \in 1..Len(timers)} :
                    \A i \in 1..Len(timers) : x <= timers[i].rem
       IN  /\ timers' = [i \in 1..Len(timers) |->
                           [timers[i] EXCEPT !.rem = timers[i].rem - d]]
           /\ scenario' = elapse(scenario, d)
           /\ UNCHANGED auto
    /\ last' = [op |-> "Advance"]
    /\ UNCHANGED <<appVars, lightningVal, audioVars, renderVars>>

(***************************************************************************)
(* A measured run begins: the settings were set this instant, with         *)
(* stormIntensity at 1.0, and the loop timer was armed by that.            *)
(***************************************************************************)
StartScenario ==
    /\ phase = "mounted"
    /\ ~scenario.running
    /\ last.op \in {"SetStorm", "ToggleAudio"}
    /\ stormIntensity = 100
    /\ scenario' = [running |-> TRUE, now |-> 0, fires |-> 0]
    /\ UNCHANGED auto
    /\ last' = [op |-> "StartScenario"]
    /\ UNCHANGED <<appVars, lightningVal, timers, audioVars, renderVars>>

(***************************************************************************)
(* A new background: handleFileUpload or generateNewScene calls            *)
(* updateSettings({backgroundUrl: url}); the texture effect of RainShader  *)
(* re-runs and starts a load of the URL.                                   *)
(***************************************************************************)
SelectBackground ==
    /\ phase = "mounted"
    /\ userActions < MaxUserActions
    /\ userActions' = userActions + 1
    /\ \E url \in Urls \ {backgroundUrl} :
         /\ backgroundUrl' = url
         /\ loads' = Append(loads, url)
         /\ last' = [op |-> "SelectBackground", url |-> url]
    /\ UNCHANGED <<phase, stormIntensity, isAudioPlaying, audioVolume, lightningVal, timers,
                   audioVars, scenario, auto>>
    /\ UNCHANGED <<autoFitBackground, rainIntensity, refraction, grading, size, texture,
                   imgAspect, uniforms, frag>>

\* a variant whose onLoad sets the texture and leaves the aspect ratio
LoadDoneKeepsAspect ==
    \E i \in 1..Len(loads) :
      /\ loads' = RemoveAt(loads, i)
      /\ imgAspect' = imgAspect
      /\ texture' = IF phase = "mounted" THEN loads[i] ELSE texture
      /\ last' = [op |-> "LoadDone", url |-> loads[i]]
      /\ UNCHANGED <<appVars, lightningVal, timers, audioVars, scenario, auto>>
      /\ UNCHANGED <<backgroundUrl, autoFitBackground, rainIntensity, refraction, grading,
                     size, uniforms, frag>>

(***************************************************************************)
(* A load completes: the onLoad callback sets imgAspect and texture,       *)
(* whatever is selected by now.  Loads complete in any order.              *)
(***************************************************************************)
LoadDone ==
    \E i \in 1..Len(loads) :
      /\ loads' = RemoveAt(loads, i)
      /\ imgAspect' = IF phase = "mounted" THEN ImageAspect(loads[i]) ELSE imgAspect
      /\ texture' = IF phase = "mounted" THEN loads[i] ELSE texture
      /\ last' = [op |-> "LoadDone", url |-> loads[i]]
      /\ UNCHANGED <<appVars, lightningVal, timers, audioVars, scenario, auto>>
      /\ UNCHANGED <<backgroundUrl, autoFitBackground, rainIntensity, refraction, grading,
                     size, uniforms, frag>>

(***************************************************************************)
(* A load fails: load() was given no onError callback, nothing is told to  *)
(* the component.                                                          *)
(***************************************************************************)
LoadError ==
    \E i \in 1..Len(loads) :
      /\ loads' = RemoveAt(loads, i)
      /\ last' = [op |-> "LoadError", url |-> loads[i]]
      /\ UNCHANGED <<appVars, lightningVal, timers, audioVars, scenario, auto>>
      /\ UNCHANGED <<backgroundUrl, autoFitBackground, rainIntensity, refraction, grading,
                     size, texture, imgAspect, uniforms, frag>>

(***************************************************************************)
(* The sliders and the switch of the renderer, and the window resized.     *)
(***************************************************************************)
SetRenderSetting ==
    /\ phase = "mounted"
    /\ userActions < MaxUserActions
    /\ userActions' = userActions + 1
    /\ \/ /\ autoFitBackground' = ~autoFitBackground
          /\ UNCHANGED <<rainIntensity, refraction, grading, size>>
       \/ /\ \E v \in RainVals \ {rainIntensity} : rainIntensity' = v
          /\ UNCHANGED <<autoFitBackground, refraction, grading, size>>
       \/ /\ \E v \in RefractionVals \ {refraction} : refraction' = v
          /\ UNCHANGED <<autoFitBackground, rainIntensity, grading, size>>
       \/ /\ \E v \in BrightnessVals \ {grading.brightness} :
               grading' = [grading EXCEPT !.brightness = v]
          /\ UNCHANGED <<autoFitBackground, rainIntensity, refraction, size>>
       \/ /\ \E v \in ContrastVals \ {grading.contrast} :
               grading' = [grading EXCEPT !.contrast = v]
          /\ UNCHANGED <<autoFitBackground, rainIntensity, refraction, size>>
       \/ /\ \E v \in Sizes \ {size} : size' = v
          /\ UNCHANGED <<autoFitBackground, rainIntensity, refraction, grading>>
    /\ last' = [op |-> "SetRenderSetting"]
    /\ UNCHANGED <<phase, stormIntensity, isAudioPlaying, audioVolume, lightningVal, timers,
                   audioVars, scenario, auto>>
    /\ UNCHANGED <<backgroundUrl, texture, imgAspect, loads, uniforms, frag>>

\* a variant that leaves uRainIntensity as the previous frame had it
FrameKeepsRain ==
    /\ phase = "mounted"
    /\ uniforms' =
         [uResolution |-> size,
          uRainIntensity |-> uniforms.uRainIntensity,
          uRefraction |-> refraction,
          uBrightness |-> grading.brightness,
          uContrast |-> grading.contrast,
          uLightning |-> lightningVal,
          uAutoFit |-> autoFitBackground,
          uBgTexture |-> IF texture # "null" THEN texture ELSE uniforms.uBgTexture,
          uHasTexture |-> texture # "null",
          uImgAspect |-> IF texture # "null" THEN imgAspect ELSE uniforms.uImgAspect]
    /\ frag' = [path |-> "none"]
    /\ last' = [op |-> "Frame"]
    /\ UNCHANGED <<appVars, lightningVal, timers, audioVars, scenario, auto>>
    /\ UNCHANGED <<backgroundUrl, autoFitBackground, rainIntensity, refraction, grading,
                   size, texture, imgAspect, loads>>

(***************************************************************************)
(* useFrame: the settings and the texture state are copied to the          *)
(* uniforms.  The frame begins on a cleared drawing surface.               *)
(***************************************************************************)
Frame ==
    /\ phase = "mounted"
    /\ uniforms' =
         [uResolution |-> size,
          uRainIntensity |-> rainIntensity,
          uRefraction |-> refraction,
          uBrightness |-> grading.brightness,
          uContrast |-> grading.contrast,
          uLightning |-> lightningVal,
          uAutoFit |-> autoFitBackground,
          uBgTexture |-> IF texture # "null" THEN texture ELSE uniforms.uBgTexture,
          uHasTexture |-> texture # "null",
          uImgAspect |-> IF texture # "null" THEN imgAspect ELSE uniforms.uImgAspect]
    /\ frag' = [path |-> "none"]
    /\ last' = [op |-> "Frame"]
    /\ UNCHANGED <<appVars, lightningVal, timers, audioVars, scenario, auto>>
    /\ UNCHANGED <<backgroundUrl, autoFitBackground, rainIntensity, refraction, grading,
                   size, texture, imgAspect, loads>>

(***************************************************************************)
(* The frame is drawn right after useFrame ran: the GPU shades its         *)
(* fragments with the uniforms as they are; one of them is observed.       *)
(***************************************************************************)
Fragment ==
    /\ phase = "mounted"
    /\ last.op = "Frame"
    /\ \E uv \in UvSamples : \E center, right, up \in LayerSamples :
         \E texel \in ColourSamples : \E light \in LightSamples :
           frag' = main(uniforms, uv, center, right, up, texel, light)
    /\ last' = [op |-> "Fragment"]
    /\ UNCHANGED <<appVars, lightningVal, timers, audioVars, scenario, auto>>
    /\ UNCHANGED <<backgroundUrl, autoFitBackground, rainIntensity, refraction, grading,
                   size, texture, imgAspect, loads, uniforms>>

(***************************************************************************)
(* The steps that draw from Math.random(), with every sample of Rand.      *)
(***************************************************************************)
SetStorm == SetStormOn(Rand)

ToggleAudio == ToggleAudioOn(Rand)

LoopFire == LoopFireOn(Rand)

SecondFlashFire == SecondFlashFireOn(Rand)

Next ==
    \/ Mount
    \/ SetStorm
    \/ ToggleAudio
    \/ Unmount
    \/ LoopFire
    \/ FlashResetFire
    \/ SecondFlashFire
    \/ ThunderFire
    \/ Advance

Spec == Init /\ [][Next]_vars

(***************************************************************************)
(* The same program with Math.random() drawn at its two ends only, and     *)
(* with the event loop eventually running every pending timeout.           *)
(***************************************************************************)
LiveSetStorm == SetStormOn(RandEnds)

LiveToggleAudio == ToggleAudioOn(RandEnds)

LiveLoopFire == LoopFireOn(RandEnds)

LiveSecondFlashFire == SecondFlashFireOn(RandEnds)

LiveNext ==
    \/ Mount
    \/ LiveSetStorm
    \/ LiveToggleAudio
    \/ Unmount
    \/ LiveLoopFire
    \/ FlashResetFire
    \/ LiveSecondFlashFire
    \/ ThunderFire
    \/ Advance

\* The scheduler explored over measured runs.
ScenarioNext ==
    \/ Mount
    \/ LiveSetStorm
    \/ StartScenario
    \/ LiveLoopFire
    \/ FlashResetFire
    \/ LiveSecondFlashFire
    \/ ThunderFire
    \/ Advance

ScenarioSpec == Init /\ [][ScenarioNext]_vars

(***************************************************************************)
(* The Auto-Prompt button: setAutoPlay(!autoPlay).                         *)
(***************************************************************************)
ToggleAutoPlay ==
    /\ phase = "mounted"
    /\ userActions < MaxUserActions
    /\ userActions' = userActions + 1
    /\ auto' = commitControls([auto EXCEPT !.autoPlay = ~auto.autoPlay])
    /\ last' = [op |-> "ToggleAutoPlay", started |-> auto'.prompts > auto.prompts]
    /\ UNCHANGED <<phase, stormIntensity, isAudioPlaying, audioVolume, lightningVal, timers,
                   audioVars, renderVars, scenario>>

(***************************************************************************)
(* The button "Generate Prompt Once", disabled while isGenerating or       *)
(* autoPlay.                                                               *)
(***************************************************************************)
Spark ==
    /\ phase = "mounted"
    /\ userActions < MaxUserActions
    /\ ~auto.isGenerating
    /\ ~auto.autoPlay
    /\ userActions' = userActions + 1
    /\ auto' = commitControls(handleSpark(auto, auto.isGenerating))
    /\ last' = [op |-> "Spark", started |-> auto'.prompts > auto.prompts]
    /\ UNCHANGED <<phase, stormIntensity, isAudioPlaying, audioVolume, lightningVal, timers,
                   audioVars, renderVars, scenario>>

(***************************************************************************)
(* The 120-second interval of auto-prompt ticks.                           *)
(***************************************************************************)
PromptIntervalFire ==
    /\ phase = "mounted"
    /\ auto.promptInterval.armed
    /\ LET b == handleSpark(auto, auto.promptInterval.guard)
       IN  auto' = IF b = auto THEN auto ELSE commitControls(b)
    /\ last' = [op |-> "PromptIntervalFire", started |-> auto'.prompts > auto.prompts]
    /\ UNCHANGED <<appVars, lightningVal, timers, audioVars, renderVars, scenario>>

(***************************************************************************)
(* generateWritingPrompt resolves: onPromptGenerated(prompt), then         *)
(* setIsGenerating(false); Controls renders with a new handleSpark.        *)
(***************************************************************************)
PromptDone ==
    /\ auto.prompts > 0
    /\ auto' = IF phase = "mounted"
               THEN commitControls([auto EXCEPT !.prompts = auto.prompts - 1,
                                                !.isGenerating = FALSE])
               ELSE [auto EXCEPT !.prompts = auto.prompts - 1]
    /\ last' = [op |-> "PromptDone", started |-> auto'.prompts >= auto.prompts]
    /\ UNCHANGED <<appVars, lightningVal, timers, audioVars, renderVars, scenario>>

(***************************************************************************)
(* App renders again for any reason: handlePrompt is a new function, so    *)
(* Controls gets a new onPromptGenerated and makes a new handleSpark.      *)
(***************************************************************************)
AppRender ==
    /\ phase = "mounted"
    /\ auto' = commitControls(auto)
    /\ last' = [op |-> "AppRender", started |-> auto'.prompts > auto.prompts]
    /\ UNCHANGED <<appVars, lightningVal, timers, audioVars, renderVars, scenario>>

(***************************************************************************)
(* The auto-scene button: setIsAutoScene(!isAutoScene).                    *)
(***************************************************************************)
ToggleAutoScene ==
    /\ phase = "mounted"
    /\ userActions < MaxUserActions
    /\ userActions' = userActions + 1
    /\ auto' = autoSceneEffect([auto EXCEPT !.isAutoScene = ~auto.isAutoScene])
    /\ last' = [op |-> "ToggleAutoScene", attempt |-> auto'.isAutoScene,
                guard |-> auto.isSceneLoading, inFlight |-> auto.scenes]
    /\ UNCHANGED <<phase, stormIntensity, isAudioPlaying, audioVolume, lightningVal, timers,
                   audioVars, renderVars, scenario>>

(***************************************************************************)
(* The 120-second interval of auto-scene ticks.                            *)
(***************************************************************************)
SceneIntervalFire ==
    /\ phase = "mounted"
    /\ auto.sceneInterval.armed
    /\ auto.sceneTicks < MaxTicks
    /\ auto' = [generateNewScene(auto, auto.sceneInterval.guard) EXCEPT
                    !.sceneTicks = auto.sceneTicks + 1]
    /\ last' = [op |-> "SceneIntervalFire", attempt |-> TRUE,
                guard |-> auto.sceneInterval.guard, inFlight |-> auto.scenes]
    /\ UNCHANGED <<appVars, lightningVal, timers, audioVars, renderVars, scenario>>

(***************************************************************************)
(* generateStudyBackground resolves with a new image or with null: the     *)
(* image becomes the background, whose load the texture effect starts;     *)
(* then setIsSceneLoading(false).                                          *)
(***************************************************************************)
SceneDone ==
    /\ auto.scenes > 0
    /\ \E bgUrl \in (Urls \ {backgroundUrl}) \cup {"null"} :
         /\ auto' = IF phase = "mounted"
                    THEN [auto EXCEPT !.scenes = auto.scenes - 1, !.isSceneLoading = FALSE]
                    ELSE [auto EXCEPT !.scenes = auto.scenes - 1]
         /\ backgroundUrl' = IF phase = "mounted" /\ bgUrl # "null" THEN bgUrl
                             ELSE backgroundUrl
         /\ loads' = IF phase = "mounted" /\ bgUrl # "null" THEN Append(loads, bgUrl)
                     ELSE loads
         /\ last' = [op |-> "SceneDone", url |-> bgUrl]
    /\ UNCHANGED <<appVars, lightningVal, timers, audioVars, scenario>>
    /\ UNCHANGED <<autoFitBackground, rainIntensity, refraction, grading, size, texture,
                   imgAspect, uniforms, frag>>

\* Auto-prompt and auto-scene explored, with the loads their images start.
AutoNext ==
    \/ Mount
    \/ ToggleAutoPlay
    \/ Spark
    \/ PromptIntervalFire
    \/ PromptDone
    \/ AppRender
    \/ ToggleAutoScene
    \/ SceneIntervalFire
    \/ SceneDone
    \/ LoadDone
    \/ Unmount

AutoSpec == Init /\ [][AutoNext]_vars

\* The renderer explored: backgrounds selected and loaded, settings changed,
\* frames drawn.
RenderNext ==
    \/ Mount
    \/ SelectBackground
    \/ LoadDone
    \/ LoadError
    \/ SetRenderSetting
    \/ Frame
    \/ Fragment
    \/ Unmount

RenderSpec == Init /\ [][RenderNext]_vars

\* The program explored with the Volume slider.
VolumeNext ==
    \/ LiveNext
    \/ SetVolume

VolumeSpec == Init /\ [][VolumeNext]_vars

\* The program explored with thunder sounds reaching their end, the Rain
\* Audio switch left on.
PoolNext ==
    \/ Mount
    \/ LiveSetStorm
    \/ Unmount
    \/ LiveLoopFire
    \/ FlashResetFire
    \/ LiveSecondFlashFire
    \/ ThunderFire
    \/ ThunderEnd
    \/ Advance

PoolSpec == Init /\ [][PoolNext]_vars

LiveSpec ==
    /\ Init
    /\ [][LiveNext]_vars
    /\ WF_vars(Advance)
    /\ WF_vars(LiveLoopFire)
    /\ WF_vars(FlashResetFire)
    /\ WF_vars(LiveSecondFlashFire)
    /\ WF_vars(ThunderFire)

(***************************************************************************)
(* Observations used by the properties below.                              *)
(***************************************************************************)
\* the step just taken set the flash intensity or triggered / started a thunder
EventJustFired ==
    \/ last.op = "LoopFire" /\ ~last.skipped
    \/ last.op = "SecondFlashFire"
    \/ last.op = "ThunderFire"

\* the range premise of a change between two positive intensities while armed
PositiveChangeWhileArmed ==
    /\ phase = "mounted"
    /\ stormIntensity > 0
    /\ stormIntensity' > 0
    /\ stormIntensity' # stormIntensity
    /\ LoopTimers(timers) # {}

(***************************************************************************)
(* C1.  Scheduler idle property: while stormIntensity is 0, no step sets   *)
(* the flash intensity to a brightness, triggers a thunder or starts a     *)
(* thunder playback.                                                       *)
(***************************************************************************)
C1_NoEventWhileIdle ==
    (phase = "mounted" /\ stormIntensity = 0) => ~EventJustFired

(***************************************************************************)
(* C2.  At most one loop (reschedule) timer is pending at any time.        *)
(***************************************************************************)
C2_OneLoopTimer == Cardinality(LoopTimers(timers)) <= 1

\* the effect re-ran while a loop timer was pending, and one timer is pending
C2_Rearmed ==
    /\ last.op = "ToggleAudio"
    /\ userActions >= 2
    /\ stormIntensity > 1
    /\ Cardinality(LoopTimers(timers)) = 1

(***************************************************************************)
(* C3.  While stormIntensity is 0, and after the unmount, no loop timer is *)
(* pending and no loop timer has just fired.                               *)
(***************************************************************************)
C3_IdleAtZero ==
    (stormIntensity = 0 \/ phase = "unmounted") =>
        /\ LoopTimers(timers) = {}
        /\ last.op # "LoopFire"

\* the intensity was set to 0 right after a lightning event of an armed loop
C3_TornDown ==
    /\ last.op = "SetStorm"
    /\ stormIntensity = 0
    /\ \E i \in 1..Len(timers) : timers[i].kind = "flashReset"

(***************************************************************************)
(* C4.  The scheduler is idle (no loop timer pending) exactly when         *)
(* stormIntensity <= 0, and armed for every positive stormIntensity.       *)
(***************************************************************************)
C4_IdleIffZero ==
    phase = "mounted" => ((LoopTimers(timers) = {}) <=> (stormIntensity <= 0))

(***************************************************************************)
(* C5 as written.  A change of stormIntensity between two positive values  *)
(* keeps the pending loop timer as it is.                                  *)
(***************************************************************************)
C5_PendingTimerKept ==
    [][PositiveChangeWhileArmed =>
          \A i \in LoopTimers(timers) :
             \E j \in LoopTimers(timers') : timers'[j] = timers[i]]_vars

(***************************************************************************)
(* C5 amended.  A change of stormIntensity between two positive values     *)
(* cancels the pending loop timer; a loop timer pending afterwards was     *)
(* armed by the change, with a delay computed from the new intensity.      *)
(***************************************************************************)
C5_PendingTimerReplaced ==
    [][PositiveChangeWhileArmed =>
          /\ \A i \in LoopTimers(timers) :
                \A j \in LoopTimers(timers') : timers'[j] # timers[i]
          /\ \A j \in LoopTimers(timers') :
                /\ timers'[j].storm = stormIntensity'
                /\ timers'[j].rem = timers'[j].delay
                /\ timers'[j].delay >= 5000
                /\ timers'[j].delay <= 5000 + (100 - stormIntensity') * 400]_vars

\* the intensity went from one armed value to another after a lightning event
C5_ChangedWhileArmed ==
    /\ last.op = "SetStorm"
    /\ userActions = 2
    /\ stormIntensity > 1
    /\ LoopTimers(timers) # {}
    /\ \E i \in 1..Len(timers) : timers[i].kind = "flashReset"

(***************************************************************************)
(* C6.  Every change of stormIntensity re-arms the loop timer: after a     *)
(* change to a positive value exactly one loop timer is pending, armed     *)
(* just now for the new value; after a change to 0 none is pending.        *)
(***************************************************************************)
C6_RearmedOnEveryChange ==
    (phase = "mounted" /\ last.op = "SetStorm") =>
        IF stormIntensity > 0
        THEN /\ Cardinality(LoopTimers(timers)) = 1
             /\ \A i \in LoopTimers(timers) :
                   /\ timers[i].storm = stormIntensity
                   /\ timers[i].rem = timers[i].delay
        ELSE LoopTimers(timers) = {}

(***************************************************************************)
(* C7.  Every loop-timer fire, skipped or not, leaves a loop timer armed   *)
(* with a fresh delay for the same settings; and every fire is eventually  *)
(* followed by another fire unless the user changes a setting or leaves.   *)
(***************************************************************************)
C7_RearmedAfterFire ==
    /\ [][last'.op = "LoopFire" =>
             /\ Cardinality(LoopTimers(timers')) = 1
             /\ \A j \in LoopTimers(timers') :
                   /\ timers'[j].rem = timers'[j].delay
                   /\ timers'[j].delay >= 5000
                   /\ timers'[j].storm = last'.storm
                   /\ timers'[j].storm = stormIntensity'
                   /\ timers'[j].audio = isAudioPlaying']_vars
    /\ [](last.op = "LoopFire" =>
             <>(/\ last.op # "LoopFire"
                /\ <>(last.op \in {"LoopFire", "SetStorm", "ToggleAudio", "Unmount"})))

\* a skipped event, after which the loop is armed again
C7_SkippedAndRearmed ==
    /\ last.op = "LoopFire"
    /\ last.skipped
    /\ LoopTimers(timers) # {}

(***************************************************************************)
(* C8.  Every armed delay is 5000 ms + random() * (1 - stormIntensity) *   *)
(* 40000 ms: it lies in [5000, 5000 + (1 - stormIntensity) * 40000] and is *)
(* never negative.                                                         *)
(***************************************************************************)
C8_DelayRange ==
    \A i \in LoopTimers(timers) :
       LET t == timers[i]
       IN  /\ t.storm \in 1..100
           /\ t.delay >= 0
           /\ t.delay >= 5000
           /\ t.delay <= 5000 + (100 - t.storm) * 400
           /\ (t.delay - 5000) * 1000 <= 999 * (100 - t.storm) * 400
           /\ t.rem \in 0..t.delay

\* a loop armed with a delay above the minimum
C8_LongDelayArmed ==
    \E i \in LoopTimers(timers) :
       /\ timers[i].storm = 10
       /\ timers[i].delay > 5000

(***************************************************************************)
(* C9.  The distance of a lightning event is clamp(raw - stormIntensity *  *)
(* 0.3, 0, 1), lies in [0, 1], and for the same draw does not increase     *)
(* with stormIntensity: at 0.9 it is never above the one at 0.1, and it is *)
(* strictly below it for draws above 0.03.                                 *)
(***************************************************************************)
C9_DistanceBias ==
    (last.op = "LoopFire" /\ ~last.skipped) =>
        /\ last.distance \in 0..1000
        /\ last.distance = Max(0, Min(1000, last.raw - 3 * last.storm))
        /\ \A s \in 0..100 :
              /\ s >= last.storm => distance(last.raw, s) <= last.distance
              /\ s <= last.storm => distance(last.raw, s) >= last.distance
        /\ distance(last.raw, 90) <= distance(last.raw, 10)
        /\ last.raw > 30 => distance(last.raw, 90) < distance(last.raw, 10)

\* a strike whose distance the bias lowered without clamping it
C9_BiasedStrike ==
    /\ last.op = "LoopFire"
    /\ ~last.skipped
    /\ last.raw > 30
    /\ last.distance > 0
    /\ last.distance < last.raw

(***************************************************************************)
(* C10.  The flash intensity handed to the renderer is 0 or a brightness   *)
(* (1 - distance) * 0.8 + 0.2 in [0.2, 1.0]; the shader's blend weight     *)
(* never exceeds 0.6.                                                      *)
(***************************************************************************)
C10_FlashRange ==
    /\ lightningVal \in 0..10000
    /\ lightningVal # 0 =>
          /\ lightningVal >= 2000
          /\ (lightningVal - 2000) % 8 = 0
          /\ 1000 - (lightningVal - 2000) \div 8 \in 0..1000
    /\ flashWeight(lightningVal) <= 60000

\* the brightest flash: a strike at distance 0
C10_FullFlash ==
    /\ lightningVal = 10000
    /\ flashWeight(lightningVal) = 60000

(***************************************************************************)
(* Observations on the flash timers.                                       *)
(***************************************************************************)
FlashResets(tm) == {i \in 1..Len(tm) : tm[i].kind = "flashReset"}

SecondFlashes(tm) == {i \in 1..Len(tm) : tm[i].kind = "secondFlash"}

\* this step runs the reset timer i of a flash
ResetRuns(i) ==
    /\ Due(i)
    /\ timers[i].kind = "flashReset"
    /\ last'.op = "FlashResetFire"
    /\ timers' = RemoveAt(timers, i)

(***************************************************************************)
(* C11.  Every flash is held for 100..300 ms: a reset is armed 100..300 ms *)
(* ahead by the flash it belongs to, and no reset takes the intensity to 0 *)
(* while the reset of a flash started later (the second flash of a double  *)
(* flash) still has time to run.                                           *)
(***************************************************************************)
C11_FlashHeldInFull ==
    [][/\ \A i \in FlashResets(timers') : timers'[i].rem \in 0..300
       /\ (last'.op = "SecondFlashFire" \/ (last'.op = "LoopFire" /\ ~last'.skipped)) =>
             \E i \in FlashResets(timers') : timers'[i].rem \in 100..300
       /\ \A i \in FlashResets(timers) :
             ResetRuns(i) =>
                ~\E j \in FlashResets(timers) : j > i /\ timers[j].rem > 0]_vars

(***************************************************************************)
(* C12.  While App is mounted the flash intensity is 0 whenever no flash   *)
(* timer is pending, every pending flash timer runs within 300 ms (all of  *)
(* an event's within 600 ms), the intensity leaves 0 only by a flash, and  *)
(* a flash that is showing is eventually reset to 0, whatever the user     *)
(* changes meanwhile.                                                      *)
(***************************************************************************)
C12_FlashReturnsToZero ==
    /\ [](phase = "mounted" =>
            /\ (FlashResets(timers) = {} /\ SecondFlashes(timers) = {}) => lightningVal = 0
            /\ lightningVal # 0 => FlashResets(timers) # {}
            /\ \A i \in FlashResets(timers) \cup SecondFlashes(timers) :
                  timers[i].rem \in 0..300)
    /\ [][(lightningVal = 0 /\ lightningVal' # 0) =>
             last'.op \in {"LoopFire", "SecondFlashFire"}]_vars
    /\ ((phase = "mounted" /\ lightningVal # 0) ~>
            (lightningVal = 0 \/ phase = "unmounted"))

\* the intensity was set to 0 while a flash was showing, and the flash has ended
C12_ResetAfterStormOff ==
    /\ last.op = "FlashResetFire"
    /\ phase = "mounted"
    /\ stormIntensity = 0
    /\ lightningVal = 0
    /\ FlashResets(timers) = {}
    /\ SecondFlashes(timers) = {}

(***************************************************************************)
(* Observations on the thunder timeouts.                                   *)
(***************************************************************************)
Thunders(tm) == {i \in 1..Len(tm) : tm[i].kind = "thunder"}

\* the conditions under which the lightning event just fired triggers a thunder
ThunderExpected ==
    /\ ~last.skipped
    /\ last.audio
    /\ isInitialized
    /\ globalVolumeScalar > 5

(***************************************************************************)
(* C13.  Right after a loop-timer fire exactly one thunder timeout is      *)
(* pending when the event was not skipped, audio is on, the service is     *)
(* initialized and the volume scalar is above 0.05, and it carries the     *)
(* distance the flash brightness was computed from; otherwise none is      *)
(* pending.  The fire itself changes no state of the audio service.        *)
(***************************************************************************)
C13_ThunderIffAudible ==
    /\ [](last.op = "LoopFire" =>
            /\ last.audio = isAudioPlaying
            /\ IF ThunderExpected
               THEN /\ Cardinality(Thunders(timers)) = 1
                    /\ \A i \in Thunders(timers) :
                          /\ timers[i].distance = last.distance
                          /\ lightningVal = brightness(timers[i].distance)
               ELSE Thunders(timers) = {})
    /\ [][last'.op = "LoopFire" => UNCHANGED audioVars]_vars

\* a thunder scheduled with the volume just above the threshold
C13_ThunderJustAudible ==
    /\ last.op = "LoopFire"
    /\ globalVolumeScalar = 6
    /\ \E i \in Thunders(timers) : timers[i].distance = last.distance

(***************************************************************************)
(* C14.  The thunder mapping.  For every distance and volume scalar: the   *)
(* delay is distance * 4000 plus less than 500 ms, in [0, 4500); the       *)
(* volume is max(0.1, (1 - distance) * 0.8) * g, in [0.1 g, 0.8 g] and so  *)
(* in [0, 1]; the rate is 1.1 - distance * 0.5 plus less than 0.1, in      *)
(* [0.6, 1.2); and a smaller distance gives no lower volume, no lower base *)
(* rate and no longer base delay.  The thunder scheduled by a lightning    *)
(* event carries exactly these values.                                     *)
(***************************************************************************)
ThunderMappingAt(d, g) ==
    /\ \A r \in Rand :
          /\ delayMs(d, r) \in (4 * d)..(4 * d + 499)
          /\ delayMs(d, r) \in 0..4499
          /\ rate(d, r) \in (11000 - 5 * d)..(11000 - 5 * d + 999)
          /\ rate(d, r) \in 6000..11999
    /\ eventVolume(d, g) >= 1000 * g
    /\ eventVolume(d, g) <= 8000 * g
    /\ eventVolume(d, g) \in 0..1000000
    /\ \A d2 \in DistanceGrid :
          d2 <= d =>
             /\ eventVolume(d2, g) >= eventVolume(d, g)
             /\ rate(d2, 0) >= rate(d, 0)
             /\ delayMs(d2, 0) <= delayMs(d, 0)

Playing(pool) == {n \in 1..Len(pool) : ~pool[n].paused}

(***************************************************************************)
(* C15.  The pool has 4 channels once initialized, so at most 4 thunder    *)
(* sounds play at once.  A thunder is assigned, when it is triggered, the  *)
(* first channel that is paused then, and slot 0 (index 1) when all four   *)
(* are playing; a channel other than slot 0 stays paused until its timeout *)
(* runs, and a play() with all four playing restarts slot 0.               *)
(***************************************************************************)
C15_FirstIdleChannel ==
    /\ [](/\ Len(thunderPool) = (IF isInitialized THEN 4 ELSE 0)
          /\ Cardinality(Playing(thunderPool)) <= 4
          /\ Cardinality(Thunders(timers)) <= 1
          /\ \A i \in Thunders(timers) :
                LET n == timers[i].node
                IN  /\ n \in 1..4
                    /\ last.op = "LoopFire" =>
                          IF Playing(thunderPool) = 1..4
                          THEN n = 1
                          ELSE /\ thunderPool[n].paused
                               /\ \A j \in 1..(n - 1) : ~thunderPool[j].paused
                    /\ n # 1 => thunderPool[n].paused)
    /\ [][(last'.op = "ThunderFire" /\ last'.started /\ Playing(thunderPool) = 1..4) =>
             /\ last'.node = 1
             /\ thunderPool' = thunderPool]_vars

\* a thunder triggered while all four channels are playing takes slot 0
C15_FifthTakesSlotZero ==
    /\ last.op = "LoopFire"
    /\ Playing(thunderPool) = 1..4
    /\ \E i \in Thunders(timers) : timers[i].node = 1

(***************************************************************************)
(* C16.  The texture state only ever becomes the texture of the URL that   *)
(* is selected at that moment: a load that completes for a URL that is no  *)
(* longer selected is discarded (it changes neither texture nor imgAspect),*)
(* in whatever order the loads complete.                                   *)
(***************************************************************************)
C16_StaleTextureDiscarded ==
    [][/\ (texture' # texture /\ texture' # "null") => texture' = backgroundUrl'
       /\ (last'.op = "LoadDone" /\ last'.url # backgroundUrl') =>
             (texture' = texture /\ imgAspect' = imgAspect)]_vars

(***************************************************************************)
(* C17.  A frame drawn while no background is selected, or right after the *)
(* load of the selected background failed, takes the procedural path:      *)
(* uHasTexture is false, whatever was loaded before.  A failed load leaves *)
(* the frame loop enabled.                                                 *)
(***************************************************************************)
C17_FallbackOnFailure ==
    [][/\ (last'.op = "Frame" /\ backgroundUrl = "null") => ~uniforms'.uHasTexture
       /\ (last'.op = "Frame" /\ last.op = "LoadError" /\ last.url = backgroundUrl) =>
             ~uniforms'.uHasTexture
       /\ (last'.op = "LoadError" /\ phase = "mounted") => ENABLED Frame]_vars

(***************************************************************************)
(* C18.  Cover-fit.  With a texture and auto-fit on, the COVER logic       *)
(* rescales the vertical axis when the screen is wider than the image and  *)
(* the horizontal axis otherwise, and leaves the other axis alone; the     *)
(* divisor r is at least 1; the unit square is mapped to a range centred   *)
(* on 0.5 inside [0, 1]; and the image region sampled has the aspect ratio *)
(* of the screen.  With auto-fit off no axis is rescaled.                  *)
(***************************************************************************)
C18_CoverFit ==
    uniforms.uHasTexture =>
        LET res == uniforms.uResolution
            img == uniforms.uImgAspect
            c   == coverRatio(res, img)
            lo  == coverFit([x |-> 0, y |-> 0], res, img)
            mid == coverFit([x |-> Half, y |-> Half], res, img)
            hi  == coverFit([x |-> CoordUnit, y |-> CoordUnit], res, img)
        IN  /\ uniforms.uAutoFit =>
                /\ (c.axis = "y") <=> (res[1] * img[2] > img[1] * res[2])
                /\ (c.axis = "x") <=> (res[1] * img[2] <= img[1] * res[2])
                /\ c.num >= c.den
                /\ c.den > 0
                /\ IF c.axis = "y"
                   THEN lo.x = 0 /\ hi.x = CoordUnit
                   ELSE lo.y = 0 /\ hi.y = CoordUnit
                /\ lo.x + hi.x = CoordUnit
                /\ lo.y + hi.y = CoordUnit
                /\ mid = [x |-> Half, y |-> Half]
                /\ 0 <= lo.x /\ lo.x < hi.x /\ hi.x <= CoordUnit
                /\ 0 <= lo.y /\ lo.y < hi.y /\ hi.y <= CoordUnit
                /\ (hi.x - lo.x) * img[1] * res[2] = (hi.y - lo.y) * img[2] * res[1]
                /\ (last.op = "Fragment" /\ c.axis = "y") =>
                       frag.texUv.x = frag.refractionUV.x
                /\ (last.op = "Fragment" /\ c.axis = "x") =>
                       frag.texUv.y = frag.refractionUV.y
                /\ last.op = "Fragment" =>
                       frag.texUv = coverFit(frag.refractionUV, res, img)
            /\ (last.op = "Fragment" /\ ~uniforms.uAutoFit) =>
                   frag.texUv = frag.refractionUV

\* a square screen showing the wide image: the horizontal axis is cropped
C18_WideImageOnSquareScreen ==
    /\ last.op = "Fragment"
    /\ uniforms.uHasTexture
    /\ uniforms.uAutoFit
    /\ uniforms.uResolution = <<1, 1>>
    /\ uniforms.uImgAspect = <<7, 3>>
    /\ frag.uv = [x |-> 0, y |-> 0]
    /\ frag.texUv.x > frag.refractionUV.x
    /\ frag.texUv.y = frag.refractionUV.y

(***************************************************************************)
(* C19.  A fragment shaded with rainIntensity 0 has all three layer        *)
(* weights 0, height 0, trail mask 0, normal (0, 0), a refracted           *)
(* coordinate equal to its coordinate and drop mask 0, whatever the drop   *)
(* layers return; with refraction 0 the normal is (0, 0) and the           *)
(* coordinate is not displaced at any rainIntensity.                       *)
(***************************************************************************)
C19_DryGlass ==
    last.op = "Fragment" =>
        /\ uniforms.uRainIntensity = 0 =>
              /\ frag.weights = [staticDrops |-> 0, layer1 |-> 0, layer2 |-> 0]
              /\ frag.h = 0
              /\ frag.trail = 0
              /\ frag.normal = [x |-> 0, y |-> 0]
              /\ frag.refractionUV = frag.uv
              /\ frag.dropMask = 0
        /\ uniforms.uRefraction = 0 =>
              /\ frag.normal = [x |-> 0, y |-> 0]
              /\ frag.refractionUV = frag.uv

\* drops on the layers, none on the glass
C19_DropsWithoutRain ==
    /\ last.op = "Fragment"
    /\ uniforms.uRainIntensity = 0
    /\ uniforms.uRefraction = 100
    /\ frag.center.s > 0
    /\ frag.h = 0
    /\ frag.refractionUV = frag.uv

(***************************************************************************)
(* C20.  A rejected play() of a thunder changes nothing but the pending    *)
(* thunder timeout itself: settings, flash intensity, audio service and    *)
(* every other timer, the loop timer included, stay as they are; a pending *)
(* loop timer still fires afterwards unless the user intervenes.  The      *)
(* flash of an event is set, and the loop re-armed, in the step that       *)
(* triggers the thunder, before any playback is attempted.                 *)
(***************************************************************************)
C20_RejectionSwallowed ==
    /\ [][(last'.op = "ThunderFire" /\ ~last'.started) =>
             /\ UNCHANGED <<appVars, lightningVal, audioVars>>
             /\ \E i \in Thunders(timers) : timers' = RemoveAt(timers, i)
             /\ Cardinality(LoopTimers(timers')) = Cardinality(LoopTimers(timers))
             /\ Cardinality(FlashResets(timers')) = Cardinality(FlashResets(timers))
             /\ Cardinality(SecondFlashes(timers')) = Cardinality(SecondFlashes(timers))]_vars
    /\ [][(last'.op = "LoopFire" /\ ~last'.skipped) =>
             /\ lightningVal' = brightness(last'.distance)
             /\ FlashResets(timers') # {}
             /\ Cardinality(LoopTimers(timers')) = 1]_vars
    /\ ((last.op = "ThunderFire" /\ ~last.started /\ LoopTimers(timers) # {}) ~>
            (last.op \in {"LoopFire", "SetStorm", "ToggleAudio", "Unmount"}))

\* a thunder was rejected while the loop is armed
C20_RejectedWhileArmed ==
    /\ last.op = "ThunderFire"
    /\ ~last.started
    /\ phase = "mounted"
    /\ LoopTimers(timers) # {}
    /\ Playing(thunderPool) = {}

(***************************************************************************)
(* C21.  Throughout a measured run at stormIntensity 1.0 every armed loop  *)
(* delay is exactly 5000 ms and the loop timer fires at the multiples of   *)
(* 5000 ms and at no other time: when 10 minutes have passed it has fired  *)
(* exactly 120 times.  Every lightning event of the run (a flash begun     *)
(* outside the second-flash timeout) happens in a step in which the loop   *)
(* timer fires, a fire stopped by the skip gate begins no flash and        *)
(* triggers no thunder, so the events number at most the fires, at most    *)
(* 120.                                                                    *)
(***************************************************************************)
C21_ScenarioC ==
    /\ [](scenario.running =>
            /\ variableDelay(stormIntensity) = 0
            /\ Cardinality(LoopTimers(timers)) = 1
            /\ \A i \in LoopTimers(timers) :
                  /\ timers[i].delay = minDelay
                  /\ scenario.now + timers[i].rem = minDelay * (scenario.fires + 1)
                  /\ (scenario.now = SimDuration /\ timers[i].rem > 0) =>
                        scenario.fires = 120
            /\ scenario.fires <= 120)
    /\ [][(scenario.running /\ scenario'.running) =>
             /\ (/\ last'.op # "SecondFlashFire"
                 /\ Cardinality(FlashResets(timers')) > Cardinality(FlashResets(timers))) =>
                    scenario'.fires = scenario.fires + 1
             /\ Cardinality(Thunders(timers')) > Cardinality(Thunders(timers)) =>
                    scenario'.fires = scenario.fires + 1
             /\ (last'.op = "LoopFire" /\ last'.skipped) =>
                    /\ scenario'.fires = scenario.fires + 1
                    /\ lightningVal' = lightningVal
                    /\ Cardinality(FlashResets(timers')) = Cardinality(FlashResets(timers))
                    /\ Cardinality(Thunders(timers')) = Cardinality(Thunders(timers))
             /\ scenario'.fires \in {scenario.fires, scenario.fires + 1}]_vars

\* ten minutes have passed and the 120th fire was a lightning event
C21_TenMinutes ==
    /\ scenario.running
    /\ scenario.now = SimDuration
    /\ scenario.fires = 120
    /\ last.op = "LoopFire"
    /\ ~last.skipped
    /\ FlashResets(timers) # {}

C25_GenerationOnlyOnTicks ==
    [][/\ (last'.op = "ToggleAutoPlay" /\ auto'.autoPlay /\ auto.prompts = 0) =>
            auto'.prompts = 1
       /\ (/\ auto.autoPlay
           /\ auto'.autoPlay
           /\ last'.op \in {"ToggleAutoPlay", "Spark", "PromptIntervalFire", "PromptDone",
                             "AppRender"}
           /\ last'.started) =>
            last'.op = "PromptIntervalFire"]_vars

(***************************************************************************)
(* C26.  Every attempt of auto-scene to generate (on enable and at every   *)
(* tick) consults a guard that is true exactly when a scene generation is  *)
(* in flight at that moment, and never are two scene generations in        *)
(* flight together.                                                        *)
(***************************************************************************)
C26_GuardReflectsInFlight ==
    /\ [](auto.scenes <= 1)
    /\ [][(last'.op \in {"ToggleAutoScene", "SceneIntervalFire"} /\ last'.attempt) =>
            (last'.guard <=> last'.inFlight > 0)]_vars

(***************************************************************************)
(* C27.  initAudio is idempotent: however often the audio effect has       *)
(* called it (at mount, on every toggle-on, on every volume change), the   *)
(* thunder pool holds exactly THUNDER_POOL_SIZE channels whose sources     *)
(* alternate between the two thunder recordings, no channel loops, and one *)
(* set of ambient loops exists; before the first call there is none.       *)
(***************************************************************************)
C27_InitAudioIdempotent ==
    /\ isInitialized =>
          /\ Len(thunderPool) = THUNDER_POOL_SIZE
          /\ \A i \in 1..Len(thunderPool) :
                /\ thunderPool[i].src = (IF i % 2 = 1 THEN "THUNDER_URL_1"
                                         ELSE "THUNDER_URL_2")
                /\ ~thunderPool[i].loop
          /\ ambientSets = 1
    /\ ~isInitialized => (thunderPool = <<>> /\ ambientSets = 0)

\* the audio effect has called initAudio at mount, on a toggle-on and on a
\* volume change
C27_CalledAgain ==
    /\ last.op = "SetVolume"
    /\ userActions >= 2
    /\ isInitialized
    /\ Len(thunderPool) = THUNDER_POOL_SIZE

(***************************************************************************)
(* C28.  Every loop timer is armed with a delay of at least minDelay, at   *)
(* most one is pending, and a thunder timeout has less than 4500 ms left   *)
(* and less than the pending loop timer: so when the loop timer fires (the *)
(* only step that triggers a thunder) no thunder is scheduled and not yet  *)
(* started, at most one thunder is pending at any time, and the channel a  *)
(* trigger selects holds no pending thunder.                               *)
(***************************************************************************)
C28_ThunderStartsBeforeNextTrigger ==
    /\ [](/\ Cardinality(LoopTimers(timers)) <= 1
          /\ \A i \in LoopTimers(timers) :
                /\ timers[i].delay >= minDelay
                /\ timers[i].rem <= timers[i].delay
          /\ Cardinality({i \in 1..Len(timers) : timers[i].kind = "thunder"}) <= 1
          /\ \A i \in 1..Len(timers) :
                timers[i].kind = "thunder" =>
                  /\ timers[i].rem < 4500
                  /\ \A j \in LoopTimers(timers) : timers[i].rem < timers[j].rem)
    /\ [][/\ last'.op = "LoopFire" =>
                \A i \in 1..Len(timers) : timers[i].kind # "thunder"
          /\ (\E i \in 1..Len(timers') : timers'[i].kind = "thunder"
                  /\ \A j \in 1..Len(timers) : timers[j].kind # "thunder") =>
                last'.op = "LoopFire"]_vars

\* a far thunder has just started, 625 ms before the loop timer armed with
\* the shortest delay fires
C28_StartedJustBefore ==
    /\ last.op = "ThunderFire"
    /\ last.started
    /\ \E i \in LoopTimers(timers) :
          /\ timers[i].delay = minDelay
          /\ timers[i].rem = 625

(***************************************************************************)
(* C29.  The channel, the volume and the playback rate of a thunder are    *)
(* fixed when it is triggered.  A step of the Rain Audio switch or of the  *)
(* Volume slider (both call setGlobalVolume) leaves every pending thunder  *)
(* timeout and the thunder pool as they are; only a trigger adds a thunder *)
(* timeout and only its firing removes one; and the firing configures the *)
(* channel, the volume and the rate the timeout was created with and calls *)
(* play().                                                                 *)
(***************************************************************************)
C29_ThunderFixedAtTrigger ==
    [][LET pending(tm) == SelectSeq(tm, LAMBDA t : t.kind = "thunder")
           fixed(tm)   == [i \in 1..Len(pending(tm)) |->
                             [node |-> pending(tm)[i].node, volume |-> pending(tm)[i].volume,
                              rate |-> pending(tm)[i].rate]]
       IN  /\ last'.op \in {"ToggleAudio", "SetVolume"} =>
                /\ fixed(timers') = fixed(timers)
                /\ isInitialized => thunderPool' = thunderPool
           /\ fixed(timers') # fixed(timers) => last'.op \in {"LoopFire", "ThunderFire"}
           /\ last'.op = "ThunderFire" =>
                \E i \in 1..Len(timers) :
                  /\ Due(i)
                  /\ timers[i].kind = "thunder"
                  /\ last'.node = timers[i].node
                  /\ last'.volume = timers[i].volume
                  /\ last'.rate = timers[i].rate
                  /\ last'.started => ~thunderPool'[timers[i].node].paused
                  /\ fixed(timers') = fixed(RemoveAt(timers, i))]_vars

\* a thunder triggered at full volume starts playing after the audio was
\* turned off, at its volume of before
C29_PlaysAfterMute ==
    /\ last.op = "ThunderFire"
    /\ last.started
    /\ ~isAudioPlaying
    /\ globalVolumeScalar = 0
    /\ last.volume >= 1000 * 100

(***************************************************************************)
(* C30.  A pending loop timer closed over the current stormIntensity and   *)
(* isAudioPlaying, and a loop timer that fires uses the current values.    *)
(* Right after a change of either setting, the Rain Audio switch alone     *)
(* included, every pending loop timer was armed by the change: its whole   *)
(* delay of at least minDelay is still to run.  So no loop timer fires     *)
(* without minDelay having passed since the last change, and none ever     *)
(* fires when the changes follow each other faster than that.              *)
(***************************************************************************)
C30_TimerUsesCurrentSettings ==
    /\ [](/\ \A i \in LoopTimers(timers) :
                /\ timers[i].storm = stormIntensity
                /\ timers[i].audio = isAudioPlaying
                /\ timers[i].rem <= timers[i].delay
          /\ last.op \in {"SetStorm", "ToggleAudio"} =>
                \A i \in LoopTimers(timers) :
                  /\ timers[i].rem = timers[i].delay
                  /\ timers[i].delay >= minDelay)
    /\ [][last'.op = "LoopFire" =>
            /\ last'.storm = stormIntensity
            /\ last'.audio = isAudioPlaying
            /\ last.op \notin {"SetStorm", "ToggleAudio"}
            /\ \E i \in LoopTimers(timers) :
                  /\ timers[i].rem = 0
                  /\ timers[i].delay >= minDelay]_vars

\* a loop timer armed by turning the audio off has fired, without thunder
C30_FiredAfterToggle ==
    /\ last.op = "LoopFire"
    /\ ~last.skipped
    /\ ~last.audio
    /\ last.storm = 10
    /\ \A i \in 1..Len(timers) : timers[i].kind # "thunder"

====
